---- MODULE Spec2Model ----
(***************************************************************************)
(* bacli: credential-scoped backup/restore orchestration.                  *)
(*                                                                         *)
(* One process invocation after another (`backup` or `restore`) runs       *)
(* against one filesystem.  A run authenticates to the broker, leases one  *)
(* credential per configured instance, fans out one task per Database and  *)
(* joins them.  Files are a map from paths to contents; a path is a        *)
(* sequence of components and a component a sequence of tokens, so that    *)
(* filepath.Dir, filepath.Join, `+ ".zst"` and strings.TrimSuffix are      *)
(* computed as the code computes them.                                     *)
(***************************************************************************)
EXTENDS Integers, Sequences, FiniteSets, TLC

VARIABLES
    cfg,        \* config.Config loaded for every run of the behaviour
    run,        \* number of CLI invocations started so far
    cmd,        \* the subcommand of the current invocation
    opc,        \* position of the orchestrator (BackupAll / RestoreAll)
    session,    \* the Vault client: [ok, token]
    brokerLog,  \* broker calls of the current run, in order
    leaseOK,    \* the broker's answer to a lease, per configured instance
    databases,  \* the []Database returned by InitializeDatabases
    tasks,      \* one goroutine per launched Database
    errs,       \* the buffered error channel of BackupAll
    retErr,     \* the error returned by BackupAll / RestoreAll
    exitCode,   \* exit status of the process (-1: still running)
    fs,         \* files: path -> content
    dirs,       \* directories
    now,        \* the clock read by time.Now()
    toolCalls,  \* external processes spawned in the current run
    logs,       \* log events of the current run
    mdWrites,   \* metadata files written in the current run
    metas,      \* aggregating BackupAll: the Metadata values allocated
    backupMetas,\* aggregating BackupAll: map from path to *Metadata
    mu,         \* aggregating BackupAll: holder of the mutex (0: unlocked)
    accesses,   \* aggregating BackupAll: accesses made to backupMetas
    workers     \* aggregating BackupAll: one goroutine per Database

\* the state of the BackupAll that aggregates records in a shared map
aggVars == <<metas, backupMetas, mu, accesses, workers>>

vars == <<cfg, run, cmd, opc, session, brokerLog, leaseOK, databases, tasks,
          errs, retErr, exitCode, fs, dirs, now, toolCalls, logs, mdWrites,
          metas, backupMetas, mu, accesses, workers>>

---------------------------------------------------------------------------
(* Bounds *)

MaxRuns == 2

---------------------------------------------------------------------------
(* Errors: an error is the chain of its messages, outermost first          *)
(* (fmt.Errorf("...: %w", err) prepends one); nil is the empty chain.      *)

NoErr == <<>>

Wrap(msg, err) == <<msg>> \o err

ErrTimeout == "operation timed out"

ErrUnsupportedRestoreMethod == "unsupported restore method"

\* errors.Is(err, target) for a sentinel target
ErrorsIs(err, target) == \E k \in DOMAIN err : err[k] = target

\* (*exec.Cmd).Run: a process killed at the deadline is reported by Wait as
\* the ExitError of its state; the context's cause is not consulted.
CmdRunError(outcome) ==
    CASE outcome = "ok"     -> NoErr
      [] outcome = "exit"   -> <<"exit status 1">>
      [] outcome = "killed" -> <<"signal: killed">>

ToolOutcomes == {"ok", "exit", "killed"}

---------------------------------------------------------------------------
(* Paths *)

EmptyPath == <<>>

Last(s) == s[Len(s)]

Front(s) == SubSeq(s, 1, Len(s) - 1)

\* filepath.Dir
Dir(p) == IF Len(p) <= 1 THEN <<<<".">>>> ELSE Front(p)

\* filepath.Join(dir, name): Clean drops a leading "."
Join(dir, name) == IF dir = <<<<".">>>> THEN <<name>> ELSE Append(dir, name)

\* path + suffix
AddSuffix(p, suffix) ==
    IF p = EmptyPath THEN <<<<suffix>>>>
    ELSE Append(Front(p), Append(Last(p), suffix))

\* strings.TrimSuffix(path, suffix)
TrimSuffix(p, suffix) ==
    IF p = EmptyPath \/ Last(Last(p)) # suffix THEN p
    ELSE IF Len(Last(p)) = 1 THEN Front(p)
    ELSE Append(Front(p), Front(Last(p)))

\* the prefixes of a directory path, itself included (os.MkdirAll)
Ancestors(d) == {SubSeq(d, 1, k) : k \in 1..Len(d)}

MetadataFilename == <<"metadata.json">>

\* the clock units one step of a layout's finest field spans: the clock
\* counts seconds, "2006" keeps the year only
Resolution(layout) == IF layout = "2006" THEN 31536000 ELSE 1

\* time.Now().Format(layout): what the layout does not show is dropped
Timestamp(layout, t) == ToString(t \div Resolution(layout))

EnginePostgres == "postgres"
EngineMongoDB == "mongodb"

\* <output_root>/<engine>/<database>/<timestamp>-<database>.dump
BackupPath(db, t) ==
    << <<db.OutputDir>>, <<db.Engine>>, <<db.Database>>,
       <<Timestamp(db.TimeStampFormat, t), "-", db.Database, ".dump">> >>

---------------------------------------------------------------------------
(* Files *)

Exists(f, p) == p \in DOMAIN f

WriteFile(f, p, c) == (p :> c) @@ f

RemoveFileFrom(f, p) == [q \in DOMAIN f \ {p} |-> f[q]]

\* os.MkdirAll
MkdirAll(ds, d) == ds \cup Ancestors(d)

\* the zero value of Metadata
ZeroMetadata ==
    [Engine |-> "", Database |-> "", FilePath |-> EmptyPath, Status |-> "",
     Error |-> NoErr, StartedAt |-> 0, CompletedAt |-> 0, SizeBytes |-> 0]

StatusSuccess == "success"
StatusFailed == "failed"

\* contents: a dump, a zstd stream or a JSON document
DumpFile(bytes) == [kind |-> "dump", bytes |-> bytes, rec |-> ZeroMetadata]

ZstFile(bytes) == [kind |-> "zst", bytes |-> bytes, rec |-> ZeroMetadata]

JsonFile(rec) == [kind |-> "json", bytes |-> <<>>, rec |-> rec]

\* what the dump tool writes for a database at a given time
DumpBytes(db, t) == <<IF db.Engine = EnginePostgres THEN 1 ELSE 2, t>>

\* os.Stat(path).Size(), 0 when Stat fails
FileSize(f, p) == IF Exists(f, p) THEN Len(f[p].bytes) ELSE 0

---------------------------------------------------------------------------
(* Zstandard: a frame is a magic number, the payload shifted by the        *)
(* encoder, and an end mark written when the encoder is closed.            *)

ZMagic == 40
ZEnd == 253
ZShift == 7

ZstdEncodeOpen(bytes) == <<ZMagic>> \o [k \in 1..Len(bytes) |-> bytes[k] + ZShift]

ZstdEncode(bytes) == Append(ZstdEncodeOpen(bytes), ZEnd)

ZstdValid(bytes) ==
    /\ Len(bytes) >= 2
    /\ bytes[1] = ZMagic
    /\ bytes[Len(bytes)] = ZEnd

\* a decoder that strips the frame and leaves the payload as stored
ZstdDecodeRaw(bytes) == [k \in 1..(Len(bytes) - 2) |-> bytes[k + 1]]

ZstdDecode(bytes) == [k \in 1..(Len(bytes) - 2) |-> bytes[k + 1] - ZShift]

CompressFaults == {"none", "open", "create", "copy", "remove", "close"}

\* a CompressZstd that never removes its input
CompressZstdKeepInput(f, inputPath, fault) ==
    LET outputPath == AddSuffix(inputPath, ".zst") IN
    IF fault \in {"open", "create"} \/ ~Exists(f, inputPath)
    THEN [fs |-> f, path |-> EmptyPath, err |-> <<"failed">>]
    ELSE [fs |-> WriteFile(f, outputPath,
                           ZstFile(ZstdEncode(f[inputPath].bytes))),
          path |-> outputPath, err |-> NoErr]

\* CompressZstd(inputPath) on filesystem f with an I/O fault injected at one
\* step; returns the filesystem left behind, the returned path and error.
\* The encoder buffers: the stream reaches the file when the deferred
\* encoder.Close runs, after os.Remove; an error of Close is dropped.
CompressZstd(f, inputPath, fault) ==
    LET outputPath == AddSuffix(inputPath, ".zst") IN
    IF fault = "open" \/ ~Exists(f, inputPath)
    THEN [fs |-> f, path |-> EmptyPath,
          err |-> <<"failed to open input file">>]
    ELSE IF fault = "create"
    THEN [fs |-> f, path |-> EmptyPath,
          err |-> <<"failed to create output file">>]
    ELSE LET created == WriteFile(f, outputPath, ZstFile(<<>>))
             data == f[inputPath].bytes
         IN
         IF fault = "copy"
         THEN [fs |-> WriteFile(created, outputPath, ZstFile(ZstdEncode(<<>>))),
               path |-> EmptyPath, err |-> <<"failed to compress file">>]
         ELSE IF fault = "remove"
         THEN [fs |-> WriteFile(created, outputPath, ZstFile(ZstdEncode(data))),
               path |-> EmptyPath,
               err |-> <<"failed to remove original file">>]
         ELSE LET removed == RemoveFileFrom(created, inputPath) IN
              IF fault = "close"
              THEN [fs |-> WriteFile(removed, outputPath,
                                     ZstFile(ZstdEncodeOpen(data))),
                    path |-> outputPath, err |-> NoErr]
              ELSE [fs |-> WriteFile(removed, outputPath,
                                     ZstFile(ZstdEncode(data))),
                    path |-> outputPath, err |-> NoErr]

---------------------------------------------------------------------------
(* Configuration *)

PgInstance(name, method) ==
    [Database |-> name, Host |-> "", Port |-> "", Method |-> method,
     RoleName |-> name]

MgInstance(name, method) ==
    [Database |-> name, Host |-> "mongo1", Port |-> "", Method |-> method,
     RoleName |-> name]

Config(compress, layout, approle, pg, mg) ==
    [Backup   |-> [Compress |-> compress, OutputDirectory |-> "backups",
                   TimestampFormat |-> layout, Timeout |-> 1],
     Vault    |-> [RoleName |-> approle, Token |-> "envtoken"],
     Postgres |-> [EngineDefaults |-> [Host |-> "localhost", Port |-> "5432",
                                       Method |-> "plain"],
                   Instances |-> pg],
     MongoDB  |-> [EngineDefaults |-> [Host |-> "localhost", Port |-> "27017",
                                       Method |-> "archive"],
                   Instances |-> mg]]

Configs ==
    { Config(TRUE, "2006-01-02_15-04-05", "bacli", <<PgInstance("db1", "")>>,
             <<MgInstance("testdb1", "archive")>>),
      Config(FALSE, "2006", "bacli", <<PgInstance("db1", "plain")>>, <<>>),
      Config(FALSE, "2006-01-02_15-04-05", "",
             <<PgInstance("db1", "custom"), PgInstance("db2", "")>>, <<>>),
      Config(FALSE, "2006-01-02_15-04-05", "", <<PgInstance("db1", "sql")>>,
             <<MgInstance("testdb1", "bson")>>),
      Config(TRUE, "2006-01-02_15-04-05", "", <<PgInstance("db1", "custom")>>,
             <<>>),
      Config(FALSE, "2006-01-02_15-04-05", "",
             <<PgInstance("db1", "plain"), PgInstance("db1", "plain")>>,
             <<>>) }

\* the configured instances, each with its engine and its place in the list
Configured(c) ==
    { [engine |-> EnginePostgres, k |-> k] : k \in DOMAIN c.Postgres.Instances }
    \cup
    { [engine |-> EngineMongoDB, k |-> k] : k \in DOMAIN c.MongoDB.Instances }

InstanceOf(c, id) ==
    IF id.engine = EnginePostgres THEN c.Postgres.Instances[id.k]
    ELSE c.MongoDB.Instances[id.k]

---------------------------------------------------------------------------
(* Vault client *)

NoSession == [ok |-> FALSE, token |-> ""]

\* what one broker call can answer: a transport error, no secret, a secret
\* without the field, or the field
Answers == {"error", "nil", "empty", "value"}

\* secret.Data[field].(string) of the broker's answer
BrokerValue(field, answer) ==
    IF answer # "value" THEN ""
    ELSE IF field = "role_id" THEN "rid" ELSE "sid"

\* a loginAppRole that does not look at the secret_id it was given
loginAppRoleUnchecked(roleName, ans) ==
    LET readRoleID == <<[op |-> "read", path |-> "role-id", role_id |-> "",
                         secret_id |-> ""]>>
        writeSecretID == <<[op |-> "write", path |-> "secret-id",
                            role_id |-> "", secret_id |-> ""]>>
        writeLogin == <<[op |-> "write", path |-> "login",
                         role_id |-> BrokerValue("role_id", ans[1]),
                         secret_id |-> BrokerValue("secret_id", ans[2])]>>
    IN
    IF ans[1] # "value"
    THEN [calls |-> readRoleID, token |-> "", panic |-> FALSE,
          err |-> <<"fetch role_id">>]
    ELSE IF ans[2] = "error"
    THEN [calls |-> readRoleID \o writeSecretID, token |-> "",
          panic |-> FALSE, err |-> <<"generate secret_id">>]
    ELSE IF ans[3] # "value"
    THEN [calls |-> readRoleID \o writeSecretID \o writeLogin, token |-> "",
          panic |-> FALSE, err |-> <<"approle login request">>]
    ELSE [calls |-> readRoleID \o writeSecretID \o writeLogin,
          token |-> "apptoken", panic |-> FALSE, err |-> NoErr]

\* loginAppRole: the calls made and the outcome, given the broker's answers
\* to the three requests
loginAppRole(roleName, ans) ==
    LET readRoleID == <<[op |-> "read", path |-> "role-id", role_id |-> "",
                         secret_id |-> ""]>>
        writeSecretID == <<[op |-> "write", path |-> "secret-id",
                            role_id |-> "", secret_id |-> ""]>>
        writeLogin == <<[op |-> "write", path |-> "login",
                         role_id |-> BrokerValue("role_id", ans[1]),
                         secret_id |-> BrokerValue("secret_id", ans[2])]>>
    IN
    IF ans[1] = "error"
    THEN [calls |-> readRoleID, token |-> "", panic |-> FALSE, err |-> <<"fetch role_id">>]
    ELSE IF ans[1] = "nil"
    THEN [calls |-> readRoleID, token |-> "", panic |-> FALSE, err |-> <<"no role_id returned">>]
    ELSE IF ans[1] = "empty"
    THEN [calls |-> readRoleID, token |-> "", panic |-> FALSE,
          err |-> <<"invalid role_id format">>]
    ELSE IF ans[2] = "error"
    THEN [calls |-> readRoleID \o writeSecretID, token |-> "", panic |-> FALSE,
          err |-> <<"generate secret_id">>]
    ELSE IF ans[2] = "nil"
    THEN [calls |-> readRoleID \o writeSecretID, token |-> "", panic |-> FALSE,
          err |-> <<"no secret_id returned">>]
    ELSE IF ans[2] = "empty"
    THEN [calls |-> readRoleID \o writeSecretID, token |-> "", panic |-> FALSE,
          err |-> <<"invalid secret_id format">>]
    ELSE IF ans[3] = "error"
    THEN [calls |-> readRoleID \o writeSecretID \o writeLogin, token |-> "", panic |-> FALSE,
          err |-> <<"approle login request">>]
    ELSE IF ans[3] = "nil"
    THEN [calls |-> readRoleID \o writeSecretID \o writeLogin, token |-> "",
          panic |-> TRUE, err |-> NoErr]
    ELSE IF ans[3] = "empty"
    THEN [calls |-> readRoleID \o writeSecretID \o writeLogin, token |-> "",
          panic |-> FALSE, err |-> <<"no token in login response">>]
    ELSE [calls |-> readRoleID \o writeSecretID \o writeLogin,
          token |-> "apptoken", panic |-> FALSE, err |-> NoErr]

\* a NewClient that logs in a second time
NewClientLoginTwice(c, ans) ==
    IF c.Vault.RoleName = ""
    THEN [client |-> [ok |-> TRUE, token |-> c.Vault.Token], calls |-> <<>>,
          panic |-> FALSE, err |-> NoErr]
    ELSE LET login == loginAppRole(c.Vault.RoleName, ans) IN
         IF login.panic
         THEN [client |-> NoSession, calls |-> login.calls, panic |-> TRUE,
               err |-> NoErr]
         ELSE IF login.err # NoErr
         THEN [client |-> NoSession, calls |-> login.calls, panic |-> FALSE,
               err |-> Wrap("AppRole login failed", login.err)]
         ELSE [client |-> [ok |-> TRUE, token |-> login.token],
               calls |-> login.calls \o login.calls, panic |-> FALSE,
               err |-> NoErr]

\* vault.NewClient: static token first, then AppRole login when configured;
\* a failed login returns no client
NewClient(c, ans) ==
    IF c.Vault.RoleName = ""
    THEN [client |-> [ok |-> TRUE, token |-> c.Vault.Token], calls |-> <<>>,
          panic |-> FALSE, err |-> NoErr]
    ELSE LET login == loginAppRole(c.Vault.RoleName, ans) IN
         IF login.panic
         THEN [client |-> NoSession, calls |-> login.calls, panic |-> TRUE,
               err |-> NoErr]
         ELSE IF login.err # NoErr
         THEN [client |-> NoSession, calls |-> login.calls, panic |-> FALSE,
               err |-> Wrap("AppRole login failed", login.err)]
         ELSE [client |-> [ok |-> TRUE, token |-> login.token],
               calls |-> login.calls, panic |-> FALSE, err |-> NoErr]

\* NewOperator / NewOperationManager
NewOperator(c, ans) ==
    LET made == NewClient(c, ans) IN
    IF ~made.panic /\ made.err # NoErr
    THEN [client |-> NoSession, calls |-> made.calls, panic |-> FALSE,
          err |-> Wrap("vault client init", made.err)]
    ELSE made

---------------------------------------------------------------------------
(* Databases *)

\* what the broker can answer to the read of a role path: a secret with
\* both fields, a transport error, no secret, a secret whose password is
\* not a string, a secret without a username
LeaseAnswers == {"ok", "error", "nil", "badfield", "nouser"}

\* the lease_duration of the broker's secrets, in seconds
LeaseSeconds == 2

\* time.Second, in the nanoseconds of a time.Duration
Second == 1000000000

NoCredentials == [Username |-> "", Password |-> "", TTL |-> 0]

\* client.api.Logical().ReadWithContext(ctx, role): the error, whether a
\* secret came back, its data fields and its lease duration
ReadWithContext(role, answer) ==
    [err |-> IF answer = "error" THEN <<"vault unreachable">> ELSE NoErr,
     secret |-> answer \notin {"error", "nil"},
     Data |-> CASE answer = "ok" ->
                     {[name |-> "username", type |-> "string",
                       val |-> "v-" \o role],
                      [name |-> "password", type |-> "string",
                       val |-> "pw-" \o role]}
                [] answer = "badfield" ->
                     {[name |-> "username", type |-> "string",
                       val |-> "v-" \o role],
                      [name |-> "password", type |-> "number", val |-> "0"]}
                [] answer = "nouser" ->
                     {[name |-> "password", type |-> "string",
                       val |-> "pw-" \o role]}
                [] OTHER -> {},
     LeaseDuration |-> IF answer \in {"error", "nil"} THEN 0
                       ELSE LeaseSeconds]

\* secret.Data[name].(string): the ok of the type assertion
IsString(data, name) ==
    \E d \in data : d.name = name /\ d.type = "string"

\* secret.Data[name].(string): the value of the type assertion
StringOf(data, name) ==
    IF IsString(data, name)
    THEN (CHOOSE d \in data : d.name = name /\ d.type = "string").val
    ELSE ""

\* a GetDynamicCredentials that asserts the type of the password only
GetDynamicCredentialsPassOnly(role, answer) ==
    LET resp == ReadWithContext(role, answer) IN
    IF resp.err # NoErr
    THEN [creds |-> NoCredentials, err |-> resp.err]
    ELSE IF ~resp.secret
    THEN [creds |-> NoCredentials, err |-> <<"no data found at path">>]
    ELSE IF ~IsString(resp.Data, "password")
    THEN [creds |-> NoCredentials, err |-> <<"invalid data format at path">>]
    ELSE [creds |-> [Username |-> StringOf(resp.Data, "username"),
                     Password |-> StringOf(resp.Data, "password"),
                     TTL |-> resp.LeaseDuration * Second],
          err |-> NoErr]

\* Client.GetDynamicCredentials
GetDynamicCredentials(role, answer) ==
    LET resp == ReadWithContext(role, answer) IN
    IF resp.err # NoErr
    THEN [creds |-> NoCredentials, err |-> resp.err]
    ELSE IF ~resp.secret
    THEN [creds |-> NoCredentials, err |-> <<"no data found at path">>]
    ELSE IF ~IsString(resp.Data, "username") \/ ~IsString(resp.Data, "password")
    THEN [creds |-> NoCredentials, err |-> <<"invalid data format at path">>]
    ELSE [creds |-> [Username |-> StringOf(resp.Data, "username"),
                     Password |-> StringOf(resp.Data, "password"),
                     TTL |-> resp.LeaseDuration * Second],
          err |-> NoErr]

\* a functional option that overrides with an empty value too
AlwaysOverride(value, current) == value

\* a functional option that overrides a field only with a non-empty value
Override(value, current) == IF value # "" THEN value ELSE current

\* NewPostgres(cfg, opts...) with the options of InitPostgresInstances
NewPostgres(c, instance, creds) ==
    [Engine          |-> EnginePostgres,
     Username        |-> Override(creds.Username, ""),
     Password        |-> Override(creds.Password, ""),
     Database        |-> Override(instance.Database, ""),
     Host            |-> Override(instance.Host, c.Postgres.EngineDefaults.Host),
     Port            |-> Override(instance.Port, c.Postgres.EngineDefaults.Port),
     Method          |-> Override(instance.Method,
                                  c.Postgres.EngineDefaults.Method),
     OutputDir       |-> c.Backup.OutputDirectory,
     TimeStampFormat |-> c.Backup.TimestampFormat,
     Timeout         |-> c.Backup.Timeout]

\* NewMongoDB(cfg, opts...) with the options of InitMongoDBInstances
NewMongoDB(c, instance, creds) ==
    [Engine          |-> EngineMongoDB,
     Username        |-> Override(creds.Username, ""),
     Password        |-> Override(creds.Password, ""),
     Database        |-> Override(instance.Database, ""),
     Host            |-> Override(instance.Host, c.MongoDB.EngineDefaults.Host),
     Port            |-> Override(instance.Port, c.MongoDB.EngineDefaults.Port),
     Method          |-> Override(instance.Method,
                                  c.MongoDB.EngineDefaults.Method),
     OutputDir       |-> c.Backup.OutputDirectory,
     TimeStampFormat |-> c.Backup.TimestampFormat,
     Timeout         |-> c.Backup.Timeout]

NewDatabase(c, engine, instance, creds) ==
    IF engine = EnginePostgres THEN NewPostgres(c, instance, creds)
    ELSE NewMongoDB(c, instance, creds)

EngineInstances(c, engine) ==
    IF engine = EnginePostgres THEN c.Postgres.Instances
    ELSE c.MongoDB.Instances

\* InitPostgresInstances / InitMongoDBInstances from instance k on: the
\* loop leases and constructs in order and returns nil and the error at the
\* first lease that fails
RECURSIVE InitInstances(_, _, _, _, _, _)
InitInstances(c, engine, answers, k, dbs, leased) ==
    IF k > Len(EngineInstances(c, engine))
    THEN [dbs |-> dbs, leased |-> leased, err |-> NoErr]
    ELSE LET instance == EngineInstances(c, engine)[k]
             id == [engine |-> engine, k |-> k]
             got == GetDynamicCredentials(instance.RoleName, answers[id])
         IN
         IF got.err # NoErr
         THEN [dbs |-> <<>>, leased |-> Append(leased, id),
               err |-> Wrap("vault read", got.err)]
         ELSE InitInstances(c, engine, answers, k + 1,
                            Append(dbs, NewDatabase(c, engine, instance,
                                                    got.creds)),
                            Append(leased, id))

\* the orders in which the loop over the initializers may visit the engines
EngineOrders ==
    {<<EnginePostgres, EngineMongoDB>>, <<EngineMongoDB, EnginePostgres>>}

\* InitializeDatabases: every engine's initializer in turn; the first error
\* discards everything constructed so far
RECURSIVE InitializeFrom(_, _, _, _, _, _)
InitializeFrom(c, order, answers, n, dbs, leased) ==
    IF n > Len(order)
    THEN [dbs |-> dbs, leased |-> leased, err |-> NoErr]
    ELSE LET got == InitInstances(c, order[n], answers, 1, <<>>, <<>>) IN
         IF got.err # NoErr
         THEN [dbs |-> <<>>, leased |-> leased \o got.leased,
               err |-> Wrap("initialize instance", got.err)]
         ELSE InitializeFrom(c, order, answers, n + 1, dbs \o got.dbs,
                             leased \o got.leased)

\* an InitializeDatabases that returns from inside its loop
InitializeDatabasesFirstEngine(c, order, answers) ==
    InitInstances(c, order[1], answers, 1, <<>>, <<>>)

InitializeDatabases(c, order, answers) ==
    InitializeFrom(c, order, answers, 1, <<>>, <<>>)

---------------------------------------------------------------------------
(* Metadata store *)

\* a NewMetadata that never stats the file
NewMetadataNoStat(db, startedAt, completedAt, filePath, err, f) ==
    [Engine      |-> db.Engine,
     Database    |-> db.Database,
     FilePath    |-> filePath,
     Status      |-> IF err # NoErr THEN StatusFailed ELSE StatusSuccess,
     Error       |-> err,
     StartedAt   |-> startedAt,
     CompletedAt |-> completedAt,
     SizeBytes   |-> 0]

\* NewMetadata(db, startedAt, completedAt, filePath, err)
NewMetadata(db, startedAt, completedAt, filePath, err, f) ==
    [Engine      |-> db.Engine,
     Database    |-> db.Database,
     FilePath    |-> filePath,
     Status      |-> IF err # NoErr THEN StatusFailed ELSE StatusSuccess,
     Error       |-> err,
     StartedAt   |-> startedAt,
     CompletedAt |-> completedAt,
     SizeBytes   |-> FileSize(f, filePath)]

\* the file Metadata.Write(dirPath) creates
MetadataWritePath(dirPath) == Join(dirPath, MetadataFilename)

\* Metadata.Write(dirPath): the directory is created, the file truncated
\* and the record encoded into it
MetadataWrite(f, ds, dirPath, rec) ==
    [fs   |-> WriteFile(f, MetadataWritePath(dirPath), JsonFile(rec)),
     dirs |-> MkdirAll(ds, dirPath)]

\* a Metadata.Load that drops the error of the decoder
MetadataLoadNoDecodeError(f, ds, filePath, m) ==
    LET made == MkdirAll(ds, Dir(filePath)) IN
    IF ~Exists(f, filePath)
    THEN [rec |-> m, dirs |-> made, err |-> <<"couldn't open metadata file">>]
    ELSE IF f[filePath].kind # "json"
    THEN [rec |-> m, dirs |-> made, err |-> NoErr]
    ELSE [rec |-> f[filePath].rec, dirs |-> made, err |-> NoErr]

\* Metadata.Load(filePath) into a record m: the directory is ensured first;
\* a missing or undecodable file leaves m as it was
MetadataLoad(f, ds, filePath, m) ==
    LET made == MkdirAll(ds, Dir(filePath)) IN
    IF ~Exists(f, filePath)
    THEN [rec |-> m, dirs |-> made, err |-> <<"couldn't open metadata file">>]
    ELSE IF f[filePath].kind # "json"
    THEN [rec |-> m, dirs |-> made, err |-> <<"decode metadata JSON">>]
    ELSE [rec |-> f[filePath].rec, dirs |-> made, err |-> NoErr]

\* <output_root>/<engine>/<database>/metadata.json, as RestoreAll joins it
MetadataFileOf(c, db) ==
    << <<c.Backup.OutputDirectory>>, <<db.Engine>>, <<db.Database>>,
       MetadataFilename >>

\* the sentinel file path of a failed record: "N/A"
SentinelPath == << <<"N">>, <<"A">> >>

---------------------------------------------------------------------------
(* Engine adapters: Backup *)

\* the formats pg_dump writes and Postgres.Restore has a strategy for
PgMethods == {"plain", "custom", "directory", "tar"}

\* MethodDir, MethodDirGzip, MethodArchive, MethodArchiveGzip
MongoMethods == {"directory", "directory-gzip", "archive", "archive-gzip"}

Supported(engine, method) ==
    IF engine = EnginePostgres THEN method \in PgMethods
    ELSE method \in MongoMethods

\* where the dump process writes: the path it is given, and ./dump/<db> for
\* a mongodump that is given neither --out nor --archive
DumpTarget(db, backupPath) ==
    IF db.Engine = EngineMongoDB /\ db.Method \notin MongoMethods
    THEN << <<"dump">>, <<db.Database>> >>
    ELSE backupPath

BackupOutcomes == ToolOutcomes \cup {"mkdir"}

DumpTool(db) == IF db.Engine = EnginePostgres THEN "pg_dump" ELSE "mongodump"

\* argv and environment of the dump process
DumpArgv(db) ==
    IF db.Engine = EnginePostgres
    THEN <<[flag |-> "-h", value |-> db.Host],
           [flag |-> "-p", value |-> db.Port],
           [flag |-> "-U", value |-> db.Username],
           [flag |-> "-d", value |-> db.Database],
           [flag |-> "-F", value |-> db.Method],
           [flag |-> "-f", value |-> "backupPath"]>>
    ELSE <<[flag |-> "--host", value |-> db.Host],
           [flag |-> "--port", value |-> db.Port],
           [flag |-> "--username", value |-> db.Username],
           [flag |-> "--password", value |-> db.Password],
           [flag |-> "--authenticationDatabase", value |-> "admin"],
           [flag |-> "--db", value |-> db.Database],
           [flag |-> "--quiet", value |-> ""]>>
         \o (CASE db.Method \in {"directory", "directory-gzip"} ->
                    <<[flag |-> "--out", value |-> "backupPath"]>>
               [] db.Method \in {"archive", "archive-gzip"} ->
                    <<[flag |-> "--archive", value |-> "backupPath"]>>
               [] OTHER -> <<>>)
         \o (IF db.Method \in {"directory-gzip", "archive-gzip"}
             THEN <<[flag |-> "--gzip", value |-> ""]>> ELSE <<>>)

DumpEnv(db) ==
    IF db.Engine = EnginePostgres
    THEN {[name |-> "PGPASSWORD", value |-> db.Password]}
    ELSE {}

\* Postgres.Backup / MongoDB.Backup at clock t on files f and directories
\* ds, the dump process ending as `outcome`: the path is returned on
\* success only, "" with the error otherwise
Backup(db, f, ds, t, outcome) ==
    LET backupPath == BackupPath(db, t) IN
    IF outcome = "mkdir"
    THEN [path |-> EmptyPath, err |-> <<"mkdir">>, fs |-> f, dirs |-> ds,
          calls |-> <<>>]
    ELSE LET call == [tool |-> DumpTool(db), engine |-> db.Engine,
                      database |-> db.Database, argv |-> DumpArgv(db),
                      env |-> DumpEnv(db)]
             made == MkdirAll(ds, Dir(backupPath))
         IN
         IF outcome # "ok"
         THEN [path |-> EmptyPath,
               err |-> Wrap(DumpTool(db) \o " failed", CmdRunError(outcome)),
               fs |-> f, dirs |-> made, calls |-> <<call>>]
         ELSE [path |-> backupPath, err |-> NoErr,
               fs |-> WriteFile(f, DumpTarget(db, backupPath),
                                DumpFile(DumpBytes(db, t))),
               dirs |-> made, calls |-> <<call>>]

---------------------------------------------------------------------------
(* Decompression and Restore *)

\* the I/O faults of DecompressZstd, and "late": the decoder, which reads
\* in its own goroutine, gets its first bytes only after os.Create
DecompressFaults == {"none", "open", "reader", "create", "copy", "late"}

\* DecompressZstd(inputPath) with an I/O fault injected at one step: the
\* output is created, truncated, at the path with ".zst" trimmed, then the
\* decoded stream is copied into it. For a path without the suffix the
\* output is the input: the decoder sees the old content or, when it reads
\* late, an empty stream, which decodes to nothing without an error.
DecompressZstd(f, inputPath, fault) ==
    LET outputPath == TrimSuffix(inputPath, ".zst") IN
    IF fault = "open" \/ ~Exists(f, inputPath)
    THEN [fs |-> f, path |-> EmptyPath, err |-> <<"open">>]
    ELSE IF fault = "reader"
    THEN [fs |-> f, path |-> EmptyPath, err |-> <<"zstd.NewReader">>]
    ELSE IF fault = "create"
    THEN [fs |-> f, path |-> EmptyPath, err |-> <<"create">>]
    ELSE LET src == f[inputPath].bytes
             created == WriteFile(f, outputPath, DumpFile(<<>>))
         IN
         IF fault = "late" /\ outputPath = inputPath
         THEN [fs |-> created, path |-> outputPath, err |-> NoErr]
         ELSE IF fault = "copy" \/ ~ZstdValid(src)
         THEN [fs |-> created, path |-> EmptyPath,
               err |-> <<"copy from decoder">>]
         ELSE [fs |-> WriteFile(created, outputPath,
                                DumpFile(ZstdDecode(src))),
               path |-> outputPath, err |-> NoErr]

RestoreTool(db) ==
    IF db.Engine = EnginePostgres
    THEN (IF db.Method = "plain" THEN "psql" ELSE "pg_restore")
    ELSE "mongorestore"

RestoreArgv(db) ==
    IF db.Engine = EnginePostgres
    THEN <<[flag |-> "-h", value |-> db.Host],
           [flag |-> "-p", value |-> db.Port],
           [flag |-> "-U", value |-> db.Username],
           [flag |-> "-d", value |-> db.Database]>>
         \o (IF db.Method = "plain"
             THEN <<[flag |-> "-f", value |-> "backupFile"]>>
             ELSE <<[flag |-> "-c", value |-> ""],
                    [flag |-> "-F", value |-> db.Method],
                    [flag |-> "", value |-> "backupFile"]>>)
    ELSE IF db.Method \notin MongoMethods THEN <<>>
    ELSE <<[flag |-> "--host", value |-> db.Host],
           [flag |-> "--port", value |-> db.Port],
           [flag |-> "--username", value |-> db.Username],
           [flag |-> "--password", value |-> db.Password],
           [flag |-> "--authenticationDatabase", value |-> "admin"],
           [flag |-> "--nsInclude", value |-> db.Database],
           [flag |-> "--drop", value |-> ""],
           [flag |-> "--quiet", value |-> ""]>>
         \o (IF db.Method \in {"directory", "directory-gzip"}
             THEN <<[flag |-> "--dir", value |-> "sourceDir"]>>
             ELSE <<[flag |-> "--archive", value |-> "sourceDir"]>>)
         \o (IF db.Method \in {"directory-gzip", "archive-gzip"}
             THEN <<[flag |-> "--gzip", value |-> ""]>> ELSE <<>>)

\* Postgres.Restore / MongoDB.Restore: the file is checked with os.Stat,
\* then the restore process runs and ends as `outcome`
Restore(db, f, backupFile, outcome) ==
    IF ~Exists(f, backupFile)
    THEN [err |-> <<"backup file not found">>, calls |-> <<>>]
    ELSE [err |-> IF outcome = "ok" THEN NoErr
                  ELSE Wrap(RestoreTool(db) \o " failed", CmdRunError(outcome)),
          calls |-> <<[tool |-> RestoreTool(db), engine |-> db.Engine,
                       database |-> db.Database, argv |-> RestoreArgv(db),
                       env |-> DumpEnv(db)]>>]

---------------------------------------------------------------------------
(* State *)

\* a record of an earlier failed backup of a database, as the metadata
\* file format stores it
StaleFailedRecord(engine, database) ==
    [Engine |-> engine, Database |-> database, FilePath |-> SentinelPath,
     Status |-> StatusFailed, Error |-> <<"pg_dump failed", "exit status 1">>,
     StartedAt |-> 0, CompletedAt |-> 0, SizeBytes |-> 0]

\* the effective method of a configured instance
MethodOf(c, id) ==
    Override(InstanceOf(c, id).Method,
             IF id.engine = EnginePostgres THEN c.Postgres.EngineDefaults.Method
             ELSE c.MongoDB.EngineDefaults.Method)

\* the artifact and the record an earlier successful backup of an instance
\* has left, taken at clock 0
EarlierBackup(c, id) ==
    LET db == [Engine |-> id.engine, Database |-> InstanceOf(c, id).Database,
               OutputDir |-> c.Backup.OutputDirectory,
               TimeStampFormat |-> c.Backup.TimestampFormat]
        p == BackupPath(db, 0)
        rec == [Engine |-> db.Engine, Database |-> db.Database,
                FilePath |-> p, Status |-> StatusSuccess, Error |-> NoErr,
                StartedAt |-> 0, CompletedAt |-> 0,
                SizeBytes |-> Len(DumpBytes(db, 0))]
    IN (p :> DumpFile(DumpBytes(db, 0))) @@
       (MetadataFileOf(c, db) :> JsonFile(rec))

RECURSIVE EarlierBackups(_, _)
EarlierBackups(c, ids) ==
    IF ids = {} THEN <<>>
    ELSE LET id == CHOOSE x \in ids : TRUE IN
         EarlierBackup(c, id) @@ EarlierBackups(c, ids \ {id})

\* a metadata file cut short: not a JSON value
TruncatedJsonFile == [kind |-> "truncated", bytes |-> <<>>, rec |-> ZeroMetadata]

\* the disks a first run may find. An empty one. For the configuration
\* whose methods have been changed to ones without a restore strategy, and
\* for the single-instance configuration whose compression has been switched
\* on, the backups taken before the change. For the single-instance
\* configuration without compression, also a disk whose metadata file holds
\* a failed record and one whose metadata file is cut short.
InitialDisks(c) ==
    IF \E id \in Configured(c) : ~Supported(id.engine, MethodOf(c, id))
    THEN {EarlierBackups(c, Configured(c))}
    ELSE IF Len(c.Postgres.Instances) = 1 /\ Len(c.MongoDB.Instances) = 0
    THEN LET db == [Engine |-> EnginePostgres,
                    Database |-> c.Postgres.Instances[1].Database]
         IN IF c.Backup.Compress
            THEN {EarlierBackups(c, Configured(c))}
            ELSE {<<>>,
                  MetadataFileOf(c, db) :>
                     JsonFile(StaleFailedRecord(db.Engine, db.Database)),
                  MetadataFileOf(c, db) :> TruncatedJsonFile}
    ELSE {<<>>}

NoTask(first) ==
    [pc |-> first, outcome |-> "none", start |-> 0, backupPath |-> EmptyPath,
     err |-> NoErr, record |-> ZeroMetadata, ret |-> NoErr,
     path |-> EmptyPath, loadErr |-> NoErr, trace |-> <<>>]

Init ==
    /\ cfg \in Configs
    /\ run = 0
    /\ cmd = "none"
    /\ opc = "idle"
    /\ session = NoSession
    /\ brokerLog = <<>>
    /\ leaseOK = <<>>
    /\ databases = <<>>
    /\ tasks = <<>>
    /\ errs = [buf |-> <<>>, cap |-> 0, closed |-> FALSE]
    /\ retErr = NoErr
    /\ exitCode = -1
    /\ \E disk \in InitialDisks(cfg) :
         /\ fs = disk
         /\ dirs = UNION {Ancestors(Dir(p)) : p \in DOMAIN disk}
    /\ now = 0
    /\ toolCalls = {}
    /\ logs = {}
    /\ mdWrites = {}
    /\ metas = <<>>
    /\ backupMetas = <<>>
    /\ mu = 0
    /\ accesses = {}
    /\ workers = <<>>

\* a new process: nothing of the previous run survives but the disk
Start(command) ==
    /\ opc \in {"idle", "exited"}
    /\ run < MaxRuns
    /\ run' = run + 1
    /\ cmd' = command
    /\ opc' = "new"
    /\ session' = NoSession
    /\ brokerLog' = <<>>
    /\ leaseOK' = <<>>
    /\ databases' = <<>>
    /\ tasks' = <<>>
    /\ errs' = [buf |-> <<>>, cap |-> 0, closed |-> FALSE]
    /\ retErr' = NoErr
    /\ exitCode' = -1
    /\ toolCalls' = {}
    /\ logs' = {}
    /\ mdWrites' = {}
    /\ now' = now + 1
    /\ UNCHANGED <<cfg, fs, dirs>>
    /\ UNCHANGED aggVars

StartBackup == Start("backup")

StartRestore == Start("restore")

\* NewOperator(configPath) with its error dropped: the run goes on without
\* a client
AuthenticateErrorDropped ==
    /\ opc = "new"
    /\ \E ans \in [1..3 -> Answers] :
         LET made == NewOperator(cfg, ans) IN
         /\ session' = made.client
         /\ brokerLog' = brokerLog \o made.calls
         /\ retErr' = retErr
         /\ opc' = "init"
    /\ UNCHANGED <<cfg, run, cmd, leaseOK, databases, tasks, errs, exitCode,
                   fs, dirs, now, toolCalls, logs, mdWrites>>
    /\ UNCHANGED aggVars

\* the value a panic of the main goroutine is recovered with
PanicNilDeref == <<"panic: invalid memory address or nil pointer dereference">>

\* the exit status of a process that dies of an unrecovered panic
ExitPanic == 2

\* BackupAll / RestoreAll: NewOperator(configPath); its error is returned;
\* a panic inside it ends the process
Authenticate ==
    /\ opc = "new"
    /\ \E ans \in [1..3 -> Answers] :
         LET made == NewOperator(cfg, ans) IN
         /\ session' = made.client
         /\ brokerLog' = brokerLog \o made.calls
         /\ IF made.panic
            THEN retErr' = PanicNilDeref /\ opc' = "exited"
                 /\ exitCode' = ExitPanic
            ELSE IF made.err # NoErr
            THEN retErr' = made.err /\ opc' = "returned"
                 /\ exitCode' = exitCode
            ELSE retErr' = retErr /\ opc' = "init" /\ exitCode' = exitCode
    /\ UNCHANGED <<cfg, run, cmd, leaseOK, databases, tasks, errs,
                   fs, dirs, now, toolCalls, logs, mdWrites>>
    /\ UNCHANGED aggVars

LeaseCall(id) ==
    [op |-> "read", path |-> InstanceOf(cfg, id).RoleName, role_id |-> "",
     secret_id |-> ""]

\* the engine orders of the run's InitializeDatabases: BackupAll ranges over
\* the initializers map, RestoreAll calls Postgres then MongoDB
OrdersOf(command) ==
    IF command = "backup" THEN EngineOrders
    ELSE {<<EnginePostgres, EngineMongoDB>>}

\* an unbuffered error channel
ErrsUnbuffered(command, dbs) == 0

\* make(chan error, len(databases)); RestoreAll has no error channel
ErrsCapacity(command, dbs) == IF command = "backup" THEN Len(dbs) ELSE 0

\* BackupAll / RestoreAll: InitializeDatabases; its error is returned
Initialize ==
    /\ opc = "init"
    /\ \E order \in OrdersOf(cmd), answers \in [Configured(cfg) -> LeaseAnswers] :
         LET got == InitializeDatabases(cfg, order, answers) IN
         /\ leaseOK' = answers
         /\ databases' = got.dbs
         /\ brokerLog' = brokerLog \o [k \in DOMAIN got.leased |->
                                          LeaseCall(got.leased[k])]
         /\ IF got.err # NoErr
            THEN /\ retErr' = Wrap("initialize databases", got.err)
                 /\ opc' = "returned"
                 /\ errs' = errs
            ELSE /\ retErr' = retErr
                 /\ opc' = "fanout"
                 /\ errs' = [buf |-> <<>>,
                             cap |-> ErrsCapacity(cmd, got.dbs),
                             closed |-> FALSE]
    /\ UNCHANGED <<cfg, run, cmd, session, tasks, exitCode, fs, dirs, now,
                   toolCalls, logs, mdWrites>>
    /\ UNCHANGED aggVars

\* the loop body: wg.Add(1); go func(db) {...}(db)
Launch ==
    /\ opc = "fanout"
    /\ Len(tasks) < Len(databases)
    /\ tasks' = Append(tasks, NoTask(IF cmd = "backup" THEN "backup"
                                     ELSE "load"))
    /\ UNCHANGED <<cfg, run, cmd, opc, session, brokerLog, leaseOK, databases,
                   errs, retErr, exitCode, fs, dirs, now, toolCalls, logs,
                   mdWrites>>
    /\ UNCHANGED aggVars

\* a WaitGroup that is released by the first wg.Done()
WaitGroupFirstDone == \E i \in DOMAIN tasks : tasks[i].pc = "done"

\* wg.Wait() returns when the counter is zero: every launched goroutine has
\* run its deferred wg.Done()
WaitGroupZero == \A i \in DOMAIN tasks : tasks[i].pc = "done"

\* wg.Wait(); close(errs); return nil
WaitAndReturn ==
    /\ opc = "fanout"
    /\ Len(tasks) = Len(databases)
    /\ WaitGroupZero
    /\ errs' = [errs EXCEPT !.closed = (cmd = "backup")]
    /\ retErr' = NoErr
    /\ opc' = "returned"
    /\ UNCHANGED <<cfg, run, cmd, session, brokerLog, leaseOK, databases,
                   tasks, exitCode, fs, dirs, now, toolCalls, logs, mdWrites>>
    /\ UNCHANGED aggVars

\* backupCmd: os.Exit(1) on an error of BackupAll; restoreCmd drops the
\* error of RestoreAll and returns nil
ExitStatus(command, err) ==
    IF command = "backup" /\ err # NoErr THEN 1 ELSE 0

Exit ==
    /\ opc = "returned"
    /\ exitCode' = ExitStatus(cmd, retErr)
    /\ opc' = "exited"
    /\ UNCHANGED <<cfg, run, cmd, session, brokerLog, leaseOK, databases,
                   tasks, errs, retErr, fs, dirs, now, toolCalls, logs,
                   mdWrites>>
    /\ UNCHANGED aggVars

---------------------------------------------------------------------------
(* Backup tasks: Operator.BackupDatabase inside the goroutine of BackupAll *)

TaskVarsUnchanged ==
    /\ UNCHANGED <<cfg, run, cmd, opc, session, brokerLog, leaseOK, databases,
                retErr, exitCode>>
    /\ UNCHANGED aggVars

\* start := time.Now(); backupPath, err := db.Backup()
TaskBackup(i) ==
    /\ cmd = "backup"
    /\ i \in DOMAIN tasks
    /\ tasks[i].pc = "backup"
    /\ \E outcome \in BackupOutcomes :
         LET got == Backup(databases[i], fs, dirs, now, outcome) IN
         /\ fs' = got.fs
         /\ dirs' = got.dirs
         /\ toolCalls' = toolCalls \cup
                            {[task |-> i, call |-> got.calls[k]] :
                               k \in DOMAIN got.calls}
         /\ tasks' = [tasks EXCEPT ![i] =
                        [@ EXCEPT !.pc = "backed", !.outcome = outcome,
                                  !.start = now, !.backupPath = got.path,
                                  !.err = got.err,
                                  !.trace = Append(@, "Backup")]]
    /\ UNCHANGED <<errs, logs, mdWrites, now>>
    /\ TaskVarsUnchanged

\* the directory Operator.BackupDatabase hands to record.Write
RecordDir(backupPath) == Dir(backupPath)

\* a BackupDatabase that does not return after the failed record: it goes
\* on to the compression
TaskRecordThenCompress(i) ==
    /\ cmd = "backup"
    /\ i \in DOMAIN tasks
    /\ tasks[i].pc = "backed"
    /\ LET t == tasks[i]
           record == NewMetadata(databases[i], t.start, now, t.backupPath,
                                 t.err, fs)
           next == IF cfg.Backup.Compress THEN "compress" ELSE "write"
       IN
       IF t.err # NoErr
       THEN LET failed == [record EXCEPT !.FilePath = SentinelPath]
                wrote == MetadataWrite(fs, dirs, RecordDir(t.backupPath),
                                       failed)
            IN
            /\ fs' = wrote.fs
            /\ dirs' = wrote.dirs
            /\ mdWrites' = mdWrites \cup
                             {[task |-> i,
                               path |-> MetadataWritePath(RecordDir(t.backupPath))]}
            /\ tasks' = [tasks EXCEPT ![i] =
                           [@ EXCEPT !.pc = next, !.record = failed,
                                     !.trace = Append(@, "Write")]]
       ELSE /\ tasks' = [tasks EXCEPT ![i] =
                           [@ EXCEPT !.pc = next, !.record = record]]
            /\ UNCHANGED <<fs, dirs, mdWrites>>
    /\ UNCHANGED <<errs, logs, now, toolCalls>>
    /\ TaskVarsUnchanged

\* record := NewMetadata(...); on an error of Backup the failed record is
\* written with FilePath "N/A" and the error returned; otherwise on to the
\* compression or to the write
TaskRecord(i) ==
    /\ cmd = "backup"
    /\ i \in DOMAIN tasks
    /\ tasks[i].pc = "backed"
    /\ LET t == tasks[i]
           record == NewMetadata(databases[i], t.start, now, t.backupPath,
                                 t.err, fs)
       IN
       IF t.err # NoErr
       THEN LET failed == [record EXCEPT !.FilePath = SentinelPath]
                wrote == MetadataWrite(fs, dirs, RecordDir(t.backupPath),
                                       failed)
            IN
            /\ fs' = wrote.fs
            /\ dirs' = wrote.dirs
            /\ mdWrites' = mdWrites \cup
                             {[task |-> i,
                               path |-> MetadataWritePath(RecordDir(t.backupPath))]}
            /\ tasks' = [tasks EXCEPT ![i] =
                           [@ EXCEPT !.pc = "report", !.record = failed,
                                     !.ret = Wrap("backup failed for database",
                                                  t.err),
                                     !.trace = Append(@, "Write")]]
       ELSE /\ tasks' = [tasks EXCEPT ![i] =
                           [@ EXCEPT !.pc = IF cfg.Backup.Compress
                                            THEN "compress" ELSE "write",
                                     !.record = record]]
            /\ UNCHANGED <<fs, dirs, mdWrites>>
    /\ UNCHANGED <<errs, logs, now, toolCalls>>
    /\ TaskVarsUnchanged

\* comPath, err := CompressZstd(backupPath): an error is returned before
\* any record is written
TaskCompress(i) ==
    /\ cmd = "backup"
    /\ i \in DOMAIN tasks
    /\ tasks[i].pc = "compress"
    /\ \E fault \in CompressFaults :
         LET got == CompressZstd(fs, tasks[i].backupPath, fault) IN
         /\ fs' = got.fs
         /\ tasks' = [tasks EXCEPT ![i] =
                        IF got.err # NoErr
                        THEN [@ EXCEPT !.pc = "report", !.err = got.err,
                                       !.ret = Wrap("compress backup file",
                                                    got.err),
                                       !.trace = Append(@, "CompressZstd")]
                        ELSE [@ EXCEPT !.pc = "write", !.path = got.path,
                                       !.record = [@ EXCEPT !.FilePath =
                                                                got.path],
                                       !.trace = Append(@, "CompressZstd")]]
    /\ UNCHANGED <<errs, logs, now, toolCalls, dirs, mdWrites>>
    /\ TaskVarsUnchanged

\* record.Write(filepath.Dir(backupPath)); return nil
TaskWrite(i) ==
    /\ cmd = "backup"
    /\ i \in DOMAIN tasks
    /\ tasks[i].pc = "write"
    /\ LET t == tasks[i]
           wrote == MetadataWrite(fs, dirs, RecordDir(t.backupPath), t.record)
       IN
       /\ fs' = wrote.fs
       /\ dirs' = wrote.dirs
       /\ mdWrites' = mdWrites \cup
                        {[task |-> i,
                          path |-> MetadataWritePath(RecordDir(t.backupPath))]}
       /\ tasks' = [tasks EXCEPT ![i] =
                      [@ EXCEPT !.pc = "report",
                                !.trace = Append(@, "Write")]]
    /\ UNCHANGED <<errs, logs, now, toolCalls>>
    /\ TaskVarsUnchanged

\* back in the goroutine: an error is logged and sent to errs, which holds
\* one error per launched task; then the deferred wg.Done()
TaskReport(i) ==
    /\ cmd = "backup"
    /\ i \in DOMAIN tasks
    /\ tasks[i].pc = "report"
    /\ IF tasks[i].ret # NoErr
       THEN /\ Len(errs.buf) < errs.cap
            /\ errs' = [errs EXCEPT !.buf = Append(@, i)]
            /\ logs' = logs \cup {[task |-> i, level |-> "error",
                                   msg |-> "backup failed"]}
       ELSE UNCHANGED <<errs, logs>>
    /\ tasks' = [tasks EXCEPT ![i] = [@ EXCEPT !.pc = "done"]]
    /\ UNCHANGED <<fs, dirs, now, toolCalls, mdWrites>>
    /\ TaskVarsUnchanged

BackupTask ==
    \E i \in DOMAIN tasks :
        \/ TaskBackup(i)
        \/ TaskRecord(i)
        \/ TaskCompress(i)
        \/ TaskWrite(i)
        \/ TaskReport(i)

---------------------------------------------------------------------------
(* Restore tasks: the goroutine of RestoreAll                              *)

\* record.Load(metadataFile) into the zero record; its error is dropped
TaskLoad(i) ==
    /\ cmd = "restore"
    /\ i \in DOMAIN tasks
    /\ tasks[i].pc = "load"
    /\ LET got == MetadataLoad(fs, dirs, MetadataFileOf(cfg, databases[i]),
                               ZeroMetadata)
       IN
       /\ dirs' = got.dirs
       /\ tasks' = [tasks EXCEPT ![i] =
                      [@ EXCEPT !.pc = IF cfg.Backup.Compress
                                       THEN "decompress" ELSE "restore",
                                !.record = got.rec, !.loadErr = got.err,
                                !.path = got.rec.FilePath,
                                !.trace = Append(@, "Load")]]
    /\ UNCHANGED <<errs, logs, now, toolCalls, fs, mdWrites>>
    /\ TaskVarsUnchanged

\* RestoreDatabase with Compress set: decPath, err := DecompressZstd(...)
TaskDecompress(i) ==
    /\ cmd = "restore"
    /\ i \in DOMAIN tasks
    /\ tasks[i].pc = "decompress"
    /\ \E fault \in DecompressFaults :
         LET got == DecompressZstd(fs, tasks[i].record.FilePath, fault) IN
         /\ fs' = got.fs
         /\ tasks' = [tasks EXCEPT ![i] =
                        IF got.err # NoErr
                        THEN [@ EXCEPT !.pc = "report", !.ret = got.err,
                                       !.trace = Append(@, "DecompressZstd")]
                        ELSE [@ EXCEPT !.pc = "restore", !.path = got.path,
                                       !.trace = Append(@, "DecompressZstd")]]
    /\ UNCHANGED <<errs, logs, now, toolCalls, dirs, mdWrites>>
    /\ TaskVarsUnchanged

\* db.Restore(record.FilePath)
TaskRestore(i) ==
    /\ cmd = "restore"
    /\ i \in DOMAIN tasks
    /\ tasks[i].pc = "restore"
    /\ \E outcome \in ToolOutcomes :
         LET got == Restore(databases[i], fs, tasks[i].path, outcome) IN
         /\ toolCalls' = toolCalls \cup
                            {[task |-> i, call |-> got.calls[k]] :
                               k \in DOMAIN got.calls}
         /\ tasks' = [tasks EXCEPT ![i] =
                        [@ EXCEPT !.pc = IF cfg.Backup.Compress
                                         THEN "cleanup" ELSE "report",
                                  !.outcome = IF got.calls = <<>> THEN "none"
                                              ELSE outcome,
                                  !.err = got.err,
                                  !.ret = IF got.err = NoErr THEN NoErr
                                          ELSE Wrap("restore failed", got.err),
                                  !.trace = Append(@, "Restore")]]
    /\ UNCHANGED <<errs, logs, now, fs, dirs, mdWrites>>
    /\ TaskVarsUnchanged

\* a RemoveFile that runs on the success path only
TaskCleanupOnSuccess(i) ==
    /\ cmd = "restore"
    /\ i \in DOMAIN tasks
    /\ tasks[i].pc = "cleanup"
    /\ fs' = IF tasks[i].ret = NoErr THEN RemoveFileFrom(fs, tasks[i].path)
             ELSE fs
    /\ tasks' = [tasks EXCEPT ![i] =
                   [@ EXCEPT !.pc = "report",
                             !.trace = Append(@, "RemoveFile")]]
    /\ UNCHANGED <<errs, logs, now, toolCalls, dirs, mdWrites>>
    /\ TaskVarsUnchanged

\* the deferred RemoveFile(record.FilePath)
TaskCleanup(i) ==
    /\ cmd = "restore"
    /\ i \in DOMAIN tasks
    /\ tasks[i].pc = "cleanup"
    /\ fs' = RemoveFileFrom(fs, tasks[i].path)
    /\ tasks' = [tasks EXCEPT ![i] =
                   [@ EXCEPT !.pc = "report",
                             !.trace = Append(@, "RemoveFile")]]
    /\ UNCHANGED <<errs, logs, now, toolCalls, dirs, mdWrites>>
    /\ TaskVarsUnchanged

\* back in the goroutine: an error is logged; then the deferred wg.Done()
TaskRestoreReport(i) ==
    /\ cmd = "restore"
    /\ i \in DOMAIN tasks
    /\ tasks[i].pc = "report"
    /\ logs' = IF tasks[i].ret # NoErr
               THEN logs \cup {[task |-> i, level |-> "error",
                                msg |-> "restore failed"]}
               ELSE logs
    /\ tasks' = [tasks EXCEPT ![i] = [@ EXCEPT !.pc = "done"]]
    /\ UNCHANGED <<errs, fs, dirs, now, toolCalls, mdWrites>>
    /\ TaskVarsUnchanged

RestoreTask ==
    \E i \in DOMAIN tasks :
        \/ TaskLoad(i)
        \/ TaskDecompress(i)
        \/ TaskRestore(i)
        \/ TaskCleanup(i)
        \/ TaskRestoreReport(i)

Next ==
    \/ StartBackup
    \/ StartRestore
    \/ Authenticate
    \/ Initialize
    \/ Launch
    \/ WaitAndReturn
    \/ Exit
    \/ BackupTask
    \/ RestoreTask

Spec == Init /\ [][Next]_vars

---------------------------------------------------------------------------
(* The BackupAll that aggregates the records of a run in a map of          *)
(* per-engine Metadata, guarded by a mutex, and writes one file per engine *)
(* after the join.                                                         *)

\* InitializeDatabases(configPath): the Postgres instances, then the MongoDB
\* instances, with the credentials of the configuration file
AggInitializeDatabases(c) ==
    [k \in DOMAIN c.Postgres.Instances |->
        NewDatabase(c, EnginePostgres, c.Postgres.Instances[k], NoCredentials)]
    \o
    [k \in DOMAIN c.MongoDB.Instances |->
        NewDatabase(c, EngineMongoDB, c.MongoDB.Instances[k], NoCredentials)]

\* db.GetPath(): filepath.Join(OutputDir, engine)
GetPath(db) == << <<db.OutputDir>>, <<db.Engine>> >>

\* the path of a failed DBRecord: "None"
RecordNone == << <<"None">> >>

\* BackupDatabase(db): the DBRecord returned with the error of db.Backup()
DBRecord(db, startedAt, backupPath, err, f) ==
    [Name      |-> db.Database,
     Path      |-> IF err # NoErr THEN RecordNone ELSE backupPath,
     Success   |-> err = NoErr,
     Error     |-> err,
     StartedAt |-> startedAt,
     SizeBytes |-> IF err # NoErr THEN 0 ELSE FileSize(f, backupPath)]

\* the goroutines that have been started and have not ended
Running == {j \in DOMAIN workers : workers[j].pc # "done"}

InitAggregate ==
    /\ cfg \in Configs
    /\ run = 1
    /\ cmd = "backup"
    /\ opc = "init"
    /\ session = NoSession
    /\ brokerLog = <<>>
    /\ leaseOK = <<>>
    /\ databases = <<>>
    /\ tasks = <<>>
    /\ errs = [buf |-> <<>>, cap |-> 0, closed |-> FALSE]
    /\ retErr = NoErr
    /\ exitCode = -1
    /\ fs = <<>>
    /\ dirs = {}
    /\ now = 1
    /\ toolCalls = {}
    /\ logs = {}
    /\ mdWrites = {}
    /\ metas = <<>>
    /\ backupMetas = <<>>
    /\ mu = 0
    /\ accesses = {}
    /\ workers = <<>>

AggFrame == UNCHANGED <<cfg, run, cmd, session, brokerLog, leaseOK, tasks, now>>

\* databases, err := InitializeDatabases(configPath); the map and the
\* channel are made
AggInitialize ==
    /\ opc = "init"
    /\ databases' = AggInitializeDatabases(cfg)
    /\ errs' = [buf |-> <<>>, cap |-> Len(AggInitializeDatabases(cfg)),
                closed |-> FALSE]
    /\ opc' = "store"
    /\ UNCHANGED <<retErr, exitCode, fs, dirs, toolCalls, logs, mdWrites>>
    /\ UNCHANGED aggVars
    /\ AggFrame

\* the loop body, first half: backupMetas[path] = &backup.Metadata{...},
\* written without the mutex. A goroutine inside its critical section is
\* reading the map at the same time: the runtime lets the write through or
\* stops the process with "concurrent map read and map write".
AggStoreEntry ==
    /\ opc = "store"
    /\ Len(workers) < Len(databases)
    /\ LET db == databases[Len(workers) + 1] IN
       /\ metas' = Append(metas, [RunAt |-> now, Engine |-> db.Engine,
                                  Backups |-> <<>>])
       /\ backupMetas' = (GetPath(db) :> (Len(metas) + 1)) @@ backupMetas
       /\ accesses' = accesses \cup
                        {[by |-> 0, path |-> GetPath(db), locked |-> FALSE,
                          running |-> Running # {}]}
    /\ \/ opc' = "launch" /\ exitCode' = exitCode
       \/ mu # 0 /\ opc' = "crashed" /\ exitCode' = ExitPanic
    /\ UNCHANGED <<databases, errs, retErr, fs, dirs, toolCalls, logs,
                   mdWrites, mu, workers>>
    /\ AggFrame

\* the loop body, second half: wg.Add(1); go func(db) {...}(db)
AggLaunch ==
    /\ opc = "launch"
    /\ workers' = Append(workers,
                         [pc |-> "backup",
                          path |-> GetPath(databases[Len(workers) + 1]),
                          record |-> DBRecord(databases[Len(workers) + 1], 0,
                                              EmptyPath, NoErr, fs),
                          err |-> NoErr])
    /\ opc' = "store"
    /\ UNCHANGED <<databases, errs, retErr, exitCode, fs, dirs, toolCalls,
                   logs, mdWrites, metas, backupMetas, mu, accesses>>
    /\ AggFrame

AggWorkerFrame == UNCHANGED <<databases, opc, retErr, exitCode, mdWrites>>

\* record, err := BackupDatabase(db)
AggBackup(i) ==
    /\ workers[i].pc = "backup"
    /\ \E outcome \in BackupOutcomes :
         LET got == Backup(databases[i], fs, dirs, now, outcome) IN
         /\ fs' = got.fs
         /\ dirs' = got.dirs
         /\ toolCalls' = toolCalls \cup
                            {[task |-> i, call |-> got.calls[k]] :
                               k \in DOMAIN got.calls}
         /\ workers' = [workers EXCEPT ![i] =
                          [@ EXCEPT !.pc = IF got.err # NoErr THEN "send"
                                           ELSE "lock",
                                    !.record = DBRecord(databases[i], now,
                                                        got.path, got.err,
                                                        got.fs),
                                    !.err = got.err]]
    /\ UNCHANGED <<errs, logs, metas, backupMetas, mu, accesses>>
    /\ AggWorkerFrame
    /\ AggFrame

\* log.Error(...); errs <- fmt.Errorf(...)
AggSend(i) ==
    /\ workers[i].pc = "send"
    /\ Len(errs.buf) < errs.cap
    /\ errs' = [errs EXCEPT !.buf = Append(@, i)]
    /\ logs' = logs \cup {[task |-> i, level |-> "error",
                           msg |-> "backup failed"]}
    /\ workers' = [workers EXCEPT ![i] = [@ EXCEPT !.pc = "lock"]]
    /\ UNCHANGED <<fs, dirs, toolCalls, metas, backupMetas, mu, accesses>>
    /\ AggWorkerFrame
    /\ AggFrame

\* mu.Lock()
AggLock(i) ==
    /\ workers[i].pc = "lock"
    /\ mu = 0
    /\ mu' = i
    /\ workers' = [workers EXCEPT ![i] = [@ EXCEPT !.pc = "append"]]
    /\ UNCHANGED <<errs, logs, fs, dirs, toolCalls, metas, backupMetas,
                   accesses>>
    /\ AggWorkerFrame
    /\ AggFrame

\* backupMetas[path].Backups = append(backupMetas[path].Backups, record):
\* the append goes to the Metadata the map holds for the path now
AggAppend(i) ==
    /\ workers[i].pc = "append"
    /\ metas' = [metas EXCEPT ![backupMetas[workers[i].path]].Backups =
                                  Append(@, workers[i].record)]
    /\ accesses' = accesses \cup
                     {[by |-> i, path |-> workers[i].path,
                       locked |-> mu = i, running |-> TRUE]}
    /\ workers' = [workers EXCEPT ![i] = [@ EXCEPT !.pc = "unlock"]]
    /\ UNCHANGED <<errs, logs, fs, dirs, toolCalls, backupMetas, mu>>
    /\ AggWorkerFrame
    /\ AggFrame

\* mu.Unlock(); then the deferred wg.Done()
AggUnlock(i) ==
    /\ workers[i].pc = "unlock"
    /\ mu' = 0
    /\ workers' = [workers EXCEPT ![i] = [@ EXCEPT !.pc = "done"]]
    /\ UNCHANGED <<errs, logs, fs, dirs, toolCalls, metas, backupMetas,
                   accesses>>
    /\ AggWorkerFrame
    /\ AggFrame

AggWorker ==
    \E i \in DOMAIN workers :
        \/ AggBackup(i)
        \/ AggSend(i)
        \/ AggLock(i)
        \/ AggAppend(i)
        \/ AggUnlock(i)

\* the files meta.Write(path) creates for the entries of the map
AggWritten(f) ==
    [p \in {Join(path, MetadataFilename) : path \in DOMAIN backupMetas}
           \cup DOMAIN f |->
        IF \E path \in DOMAIN backupMetas : p = Join(path, MetadataFilename)
        THEN [kind |-> "json", bytes |-> <<>>,
              rec |-> metas[backupMetas[Dir(p)]]]
        ELSE f[p]]

\* wg.Wait(); close(errs); every Metadata of the map is written; the first
\* failing write is returned
AggWriteAndReturn ==
    /\ opc = "store"
    /\ Len(workers) = Len(databases)
    /\ Running = {}
    /\ errs' = [errs EXCEPT !.closed = TRUE]
    /\ \/ /\ fs' = AggWritten(fs)
          /\ dirs' = dirs \cup UNION {Ancestors(path) :
                                         path \in DOMAIN backupMetas}
          /\ retErr' = NoErr
       \/ /\ UNCHANGED <<fs, dirs>>
          /\ retErr' = <<"failed to write metadata">>
    /\ opc' = "returned"
    /\ UNCHANGED <<databases, exitCode, toolCalls, logs, mdWrites>>
    /\ UNCHANGED aggVars
    /\ AggFrame

NextAggregate ==
    \/ AggInitialize
    \/ AggStoreEntry
    \/ AggLaunch
    \/ AggWorker
    \/ AggWriteAndReturn

SpecAggregate == InitAggregate /\ [][NextAggregate]_vars

---------------------------------------------------------------------------
(* Properties *)

Returned == opc \in {"returned", "exited"}

BackupReturned == cmd = "backup" /\ Returned

\* Backup() of task i has returned an error
BackupFailed(i) ==
    /\ cmd = "backup"
    /\ tasks[i].pc \in {"report", "done"}
    /\ tasks[i].outcome \notin {"none", "ok"}

\* C1: BackupAll launches one task per Database and returns only after every
\* task has finished; each task has run to the outcome of its own tool
\* invocation, whatever happened to its siblings.
C1_JoinsEveryTask ==
    BackupReturned =>
        /\ Len(tasks) = Len(databases)
        /\ \A i \in DOMAIN tasks :
             /\ tasks[i].pc = "done"
             /\ tasks[i].outcome \in BackupOutcomes
             /\ (tasks[i].outcome = "ok") =
                    (tasks[i].record.Status = StatusSuccess)

C1_Witness ==
    /\ BackupReturned
    /\ \E i, j \in DOMAIN tasks :
         /\ tasks[i].outcome = "killed"
         /\ tasks[j].outcome = "ok"
         /\ tasks[j].ret = NoErr

\* the path of the sentinel "none"
NonePath == << <<"none">> >>

\* C2: after a failed Backup() the task has written, under the instance's
\* own <output_root>/<engine>/<database>/metadata.json, a record with
\* status=failed, file_path="none" and the failure message.
C2_FailedRecordUnderOwnKey ==
    \A i \in DOMAIN tasks :
        BackupFailed(i) =>
            LET p == MetadataFileOf(cfg, databases[i]) IN
            /\ Exists(fs, p)
            /\ fs[p].rec.Status = StatusFailed
            /\ fs[p].rec.FilePath = NonePath
            /\ fs[p].rec.Error = tasks[i].err

\* every instance-level operation of the run succeeded
EveryInstanceSucceeded ==
    /\ session.ok
    /\ DOMAIN leaseOK = Configured(cfg)
    /\ \A id \in Configured(cfg) : leaseOK[id] = "ok"
    /\ Len(tasks) = Cardinality(Configured(cfg))
    /\ \A i \in DOMAIN tasks : tasks[i].pc = "done" /\ tasks[i].ret = NoErr

\* C3: the process exits 0 exactly when every instance-level operation of
\* the run succeeded.
C3_ExitCodeReportsFailure ==
    opc = "exited" => ((exitCode = 0) = EveryInstanceSucceeded)

\* C4: an instance whose stored record has status=failed is skipped by
\* RestoreAll: a warning, no decompression, no Restore call and no restore
\* tool.
C4_FailedRecordSkipped ==
    \A i \in DOMAIN tasks :
        (cmd = "restore" /\ tasks[i].record.Status = StatusFailed) =>
            /\ \A k \in DOMAIN tasks[i].trace :
                 tasks[i].trace[k] \notin {"DecompressZstd", "Restore"}
            /\ \A c \in toolCalls : c.task # i
            /\ tasks[i].pc = "done" =>
                 \E l \in logs : l.task = i /\ l.level = "warn"

\* the Database constructed for a configured instance
DatabaseFor(id) ==
    {k \in DOMAIN databases :
        /\ databases[k].Engine = id.engine
        /\ databases[k].Database = InstanceOf(cfg, id).Database}

Initialized == DOMAIN leaseOK = Configured(cfg)

\* C5: after InitializeDatabases, every configured instance whose lease
\* succeeds has its Database, also when the lease of another instance
\* failed.
C5_LeaseFailureIsLocal ==
    Initialized =>
        \A id \in Configured(cfg) :
            leaseOK[id] = "ok" => DatabaseFor(id) # {}

AuthPaths == {"role-id", "secret-id", "login"}

AuthFailed == run > 0 /\ opc \notin {"idle", "new"} /\ ~session.ok

\* C6: when the broker authentication fails the run aborts: no lease, no
\* Database, no task, no tool and no metadata file.
C6_AuthFailureAbortsRun ==
    AuthFailed =>
        /\ Returned
        /\ retErr # NoErr
        /\ \A k \in DOMAIN brokerLog : brokerLog[k].path \in AuthPaths
        /\ databases = <<>>
        /\ tasks = <<>>
        /\ toolCalls = {}
        /\ mdWrites = {}

C6_Witness == AuthFailed /\ opc = "exited" /\ cmd = "backup" /\ exitCode = 1

\* C7: when BackupAll has returned, each instance's directory holds the
\* metadata.json of this run: its record was started in this run and has
\* the status of this run's task.
C7_MetadataReflectsLatestRun ==
    BackupReturned =>
        \A i \in DOMAIN tasks :
            LET p == MetadataFileOf(cfg, databases[i]) IN
            /\ Exists(fs, p)
            /\ fs[p].kind = "json"
            /\ fs[p].rec.StartedAt = now
            /\ fs[p].rec.Status = IF tasks[i].ret = NoErr THEN StatusSuccess
                                  ELSE StatusFailed

\* C8: a task whose dump process was killed at the deadline ends with a
\* status=failed record whose error is ErrTimeout.
C8_TimeoutClassified ==
    \A i \in DOMAIN tasks :
        (BackupFailed(i) /\ tasks[i].outcome = "killed") =>
            /\ tasks[i].record.Status = StatusFailed
            /\ ErrorsIs(tasks[i].record.Error, ErrTimeout)

\* CompressZstd has been called by task i and has returned
Compressed(i) ==
    /\ cmd = "backup"
    /\ \E k \in DOMAIN tasks[i].trace : tasks[i].trace[k] = "CompressZstd"

\* C9: after a failed CompressZstd the original file is unchanged and no
\* <path>.zst is left behind.
C9_FailedCompressLeavesNothing ==
    \A i \in DOMAIN tasks :
        (Compressed(i) /\ tasks[i].ret # NoErr) =>
            LET p == BackupPath(databases[i], tasks[i].start) IN
            /\ Exists(fs, p)
            /\ fs[p] = DumpFile(DumpBytes(databases[i], tasks[i].start))
            /\ ~Exists(fs, AddSuffix(p, ".zst"))

\* C10: after a successful CompressZstd(path) the original is gone and the
\* returned path is path + ".zst", which exists.
C10_CompressSuccess ==
    \A i \in DOMAIN tasks :
        (Compressed(i) /\ tasks[i].ret = NoErr) =>
            /\ ~Exists(fs, tasks[i].backupPath)
            /\ tasks[i].path = AddSuffix(tasks[i].backupPath, ".zst")
            /\ Exists(fs, tasks[i].path)

C10_Witness ==
    \E i \in DOMAIN tasks :
        /\ Compressed(i)
        /\ tasks[i].ret = NoErr
        /\ tasks[i].backupPath # EmptyPath

\* step has been called by task i
Called(i, step) == \E k \in DOMAIN tasks[i].trace : tasks[i].trace[k] = step

RestoredFromScratch(i) ==
    /\ cmd = "restore"
    /\ Called(i, "DecompressZstd")
    /\ Called(i, "Restore")
    /\ tasks[i].pc \in {"report", "done"}

MetadataFiles == {p \in DOMAIN fs : Last(p) = MetadataFilename}

\* C13: after BackupAll there is exactly one metadata file per instance, in
\* the instance's directory, with the instance's engine and database.
C13_OneMetadataFilePerInstance ==
    (BackupReturned /\ errs.closed) =>
        /\ MetadataFiles =
              {MetadataFileOf(cfg, databases[i]) : i \in DOMAIN databases}
        /\ \A i \in DOMAIN databases :
             LET p == MetadataFileOf(cfg, databases[i]) IN
             /\ Exists(fs, p)
             /\ fs[p].rec.Engine = databases[i].Engine
             /\ fs[p].rec.Database = databases[i].Database

\* C14: when BackupAll has returned, every success record it wrote for an
\* instance with a supported method has a positive size_bytes and a
\* file_path that exists.
C14_SuccessRecordNamesArtifact ==
    BackupReturned =>
        \A w \in mdWrites :
            (/\ fs[w.path].rec.Status = StatusSuccess
             /\ Supported(databases[w.task].Engine, databases[w.task].Method))
            =>
                /\ fs[w.path].rec.SizeBytes > 0
                /\ Exists(fs, fs[w.path].rec.FilePath)

C14_Witness ==
    /\ BackupReturned
    /\ \E w, v \in mdWrites :
         /\ fs[w.path].rec.Status = StatusSuccess
         /\ fs[w.path].rec.Engine = EngineMongoDB
         /\ Last(fs[w.path].rec.FilePath)[Len(Last(fs[w.path].rec.FilePath))]
               = ".zst"
         /\ fs[v.path].rec.Status = StatusSuccess
         /\ fs[v.path].rec.Engine = EnginePostgres

\* C15: no spawned process has the leased password in its argument vector.
C15_PasswordNeverInArgv ==
    \A c \in toolCalls :
        \A k \in DOMAIN c.call.argv :
            /\ c.call.argv[k].flag # "--password"
            /\ c.call.argv[k].value # databases[c.task].Password

\* the AppRole login has been attempted
LoginAttempted == run > 0 /\ opc \notin {"idle", "new"} /\ cfg.Vault.RoleName # ""

\* C16: an AppRole login either succeeded at all three steps, and the
\* session token is the login response's, or NewClient returned an error and
\* no session.
C16_LoginFailureReturnsError ==
    LoginAttempted =>
        IF session.ok
        THEN /\ session.token = "apptoken"
             /\ Len(brokerLog) >= 3
             /\ \A k \in 1..3 : brokerLog[k].path \in AuthPaths
        ELSE /\ session = NoSession
             /\ retErr # NoErr
             /\ retErr # PanicNilDeref

\* the answer to the lease of id passes the checks of the claim: a secret
\* came back and its username and password are strings
LeaseWellFormed(id) ==
    LET resp == ReadWithContext(InstanceOf(cfg, id).RoleName, leaseOK[id]) IN
    /\ resp.err = NoErr
    /\ resp.secret
    /\ IsString(resp.Data, "username")
    /\ IsString(resp.Data, "password")

\* C17: GetDynamicCredentials returns an error and no credential when the
\* secret is missing or a field is absent or not a string, and no Database
\* is built from it; otherwise it returns the username and password read,
\* with the lease duration as TTL, and they are the Database's.
C17_LeaseChecked ==
    Initialized =>
        \A id \in Configured(cfg) :
            LET role == InstanceOf(cfg, id).RoleName
                resp == ReadWithContext(role, leaseOK[id])
                got == GetDynamicCredentials(role, leaseOK[id])
            IN
            IF LeaseWellFormed(id)
            THEN /\ got.err = NoErr
                 /\ got.creds.Username = StringOf(resp.Data, "username")
                 /\ got.creds.Password = StringOf(resp.Data, "password")
                 /\ got.creds.TTL \div Second = resp.LeaseDuration
                 /\ got.creds.TTL % Second = 0
                 /\ \A k \in DatabaseFor(id) :
                      /\ databases[k].Username = got.creds.Username
                      /\ databases[k].Password = got.creds.Password
            ELSE /\ got.err # NoErr
                 /\ got.creds = NoCredentials
                 /\ DatabaseFor(id) = {}

C17_Witness ==
    /\ Initialized
    /\ \E id \in Configured(cfg) : leaseOK[id] \in {"badfield", "nouser"}
    /\ retErr # NoErr
    /\ retErr[Len(retErr)] = "invalid data format at path"

\* C18: Restore of an instance whose method has no restore strategy fails
\* with ErrUnsupportedRestoreMethod and starts no restore tool.
C18_UnsupportedMethodRejected ==
    \A i \in DOMAIN tasks :
        (/\ cmd = "restore"
         /\ Called(i, "Restore")
         /\ ~Supported(databases[i].Engine, databases[i].Method)) =>
            /\ ErrorsIs(tasks[i].err, ErrUnsupportedRestoreMethod)
            /\ \A c \in toolCalls : c.task # i

AllLeased == Initialized /\ \A id \in Configured(cfg) : leaseOK[id] = "ok"

\* the configured instances that have the engine and database name of id
SameIdentity(id) ==
    {other \in Configured(cfg) :
        /\ other.engine = id.engine
        /\ InstanceOf(cfg, other).Database = InstanceOf(cfg, id).Database}

\* C19: when every lease succeeds InitializeDatabases returns exactly one
\* Database per configured instance.
C19_OneDatabasePerInstance ==
    AllLeased =>
        /\ Len(databases) = Cardinality(Configured(cfg))
        /\ \A id \in Configured(cfg) :
             Cardinality(DatabaseFor(id)) = Cardinality(SameIdentity(id))

C19_Witness ==
    /\ AllLeased
    /\ \E j, k \in DOMAIN databases :
         /\ databases[j].Engine = EnginePostgres
         /\ databases[k].Engine = EngineMongoDB

\* the later of two layers that supplies a value
Layer(over, under) == IF over # "" THEN over ELSE under

EngineDefaultsOf(id) ==
    IF id.engine = EnginePostgres THEN cfg.Postgres.EngineDefaults
    ELSE cfg.MongoDB.EngineDefaults

\* C20: host, port and method of a Database are the instance's value where
\* the instance has one and the engine default otherwise; username and
\* password are the leased ones.
C20_LayeredMerge ==
    \A id \in Configured(cfg) :
        \A k \in DatabaseFor(id) :
            LET inst == InstanceOf(cfg, id)
                leased == ReadWithContext(inst.RoleName, leaseOK[id]).Data
            IN
            /\ databases[k].Host = Layer(inst.Host, EngineDefaultsOf(id).Host)
            /\ databases[k].Port = Layer(inst.Port, EngineDefaultsOf(id).Port)
            /\ databases[k].Method =
                  Layer(inst.Method, EngineDefaultsOf(id).Method)
            /\ databases[k].Username = StringOf(leased, "username")
            /\ databases[k].Password = StringOf(leased, "password")

C20_Witness ==
    \E j, k \in DOMAIN databases :
        /\ databases[j].Engine = EnginePostgres
        /\ databases[j].Method = "plain"
        /\ cfg.Postgres.Instances[1].Method = ""
        /\ databases[k].Engine = EngineMongoDB
        /\ databases[k].Host = "mongo1"
        /\ databases[k].Port = "27017"

\* C21: Metadata.Load returns an error when the file is missing or is not
\* valid JSON, and the stored record otherwise.
C21_LoadChecked ==
    \A i \in DOMAIN tasks :
        (cmd = "restore" /\ Called(i, "Load")) =>
            LET p == MetadataFileOf(cfg, databases[i]) IN
            IF ~Exists(fs, p) \/ fs[p].kind # "json"
            THEN tasks[i].loadErr # NoErr
            ELSE /\ tasks[i].loadErr = NoErr
                 /\ tasks[i].record = fs[p].rec

C21_Witness ==
    \E i \in DOMAIN tasks :
        /\ cmd = "restore"
        /\ Called(i, "Load")
        /\ Exists(fs, MetadataFileOf(cfg, databases[i]))
        /\ fs[MetadataFileOf(cfg, databases[i])].kind = "truncated"
        /\ tasks[i].loadErr # NoErr

\* C22: the path a run's Backup() writes is not the path of an artifact of
\* an earlier run: Backup() never writes over a file that no task of the
\* same run has written.
C22_DistinctArtifactPaths ==
    [][\A i \in DOMAIN tasks :
         (/\ cmd = "backup"
          /\ tasks[i].pc = "backup"
          /\ i \in DOMAIN tasks'
          /\ tasks'[i].pc = "backed"
          /\ tasks'[i].backupPath # EmptyPath
          /\ \A j \in DOMAIN tasks :
               tasks[j].backupPath # tasks'[i].backupPath)
         => ~Exists(fs, tasks'[i].backupPath)]_vars

\* C23: in a backup task CompressZstd is called only right after a Backup()
\* that succeeded, and the record of a successful backup is written only
\* after Backup() and, with compression on, after a completed CompressZstd.
C23_StepsOrdered ==
    \A i \in DOMAIN tasks :
        cmd = "backup" =>
            LET tr == tasks[i].trace IN
            /\ Called(i, "CompressZstd") =>
                 /\ tasks[i].outcome = "ok"
                 /\ tr[1] = "Backup"
                 /\ tr[2] = "CompressZstd"
            /\ Called(i, "Write") =>
                 /\ tr[1] = "Backup"
                 /\ (tasks[i].outcome = "ok" /\ cfg.Backup.Compress) =>
                      /\ tr = <<"Backup", "CompressZstd", "Write">>
                      /\ tasks[i].path = AddSuffix(tasks[i].backupPath, ".zst")
            /\ tasks[i].outcome \notin {"none", "ok"} =>
                 ~Called(i, "CompressZstd")

C23_Witness ==
    \E i, j \in DOMAIN tasks :
        /\ cmd = "backup"
        /\ tasks[i].trace = <<"Backup", "CompressZstd", "Write">>
        /\ tasks[j].trace = <<"Backup", "Write">>
        /\ tasks[j].outcome = "exit"

\* C24: a task whose compression failed has written a record for the run
\* and its error is in the run's error collection.
C24_CompressFailureRecorded ==
    \A i \in DOMAIN tasks :
        (Compressed(i) /\ tasks[i].ret # NoErr /\ tasks[i].pc = "done") =>
            /\ \E w \in mdWrites : w.task = i
            /\ \E k \in DOMAIN errs.buf : errs.buf[k] = i

LoginCalls == {k \in DOMAIN brokerLog : brokerLog[k].path = "login"}

LeaseCalls == {k \in DOMAIN brokerLog : brokerLog[k].path \notin AuthPaths}

\* C25: once tasks exist the session is established and the broker has seen
\* one login, when AppRole is configured, and one lease per instance, all
\* made before the fan-out; the tasks add no broker call and leave the
\* session as it was.
C25_AuthenticatedOnceBeforeTasks ==
    tasks # <<>> =>
        /\ session.ok
        /\ session.token = IF cfg.Vault.RoleName # "" THEN "apptoken"
                           ELSE cfg.Vault.Token
        /\ Cardinality(LoginCalls) = IF cfg.Vault.RoleName # "" THEN 1 ELSE 0
        /\ \A k \in LoginCalls : \A l \in LeaseCalls : k < l
        /\ Cardinality(LeaseCalls) = Cardinality(Configured(cfg))
        /\ \A id \in Configured(cfg) :
             \E k \in LeaseCalls : brokerLog[k] = LeaseCall(id)

C25_Witness ==
    /\ cmd = "backup"
    /\ cfg.Vault.RoleName # ""
    /\ Len(tasks) = 2
    /\ \A i \in DOMAIN tasks : tasks[i].pc = "done"

\* the record's file_path names a compressed artifact
IsCompressed(path) == path # EmptyPath /\ Last(Last(path)) = ".zst"

\* C26: a restore task decompresses exactly when the loaded record names a
\* compressed artifact.
C26_DecompressIffCompressed ==
    \A i \in DOMAIN tasks :
        (/\ cmd = "restore"
         /\ tasks[i].pc \in {"restore", "cleanup", "report", "done"}
         /\ tasks[i].loadErr = NoErr
         /\ tasks[i].record.Status = StatusSuccess) =>
            (Called(i, "DecompressZstd") = IsCompressed(tasks[i].record.FilePath))

\* C27: a restore task whose metadata could not be loaded calls neither
\* DecompressZstd nor Restore and ends with the metadata error.
C27_NoRestoreWithoutMetadata ==
    \A i \in DOMAIN tasks :
        (cmd = "restore" /\ tasks[i].loadErr # NoErr) =>
            /\ ~Called(i, "DecompressZstd")
            /\ ~Called(i, "Restore")
            /\ tasks[i].pc = "done" => tasks[i].ret = tasks[i].loadErr

\* C28: every metadata write of a backup task goes to the task's own
\* <output_root>/<engine>/<database>/metadata.json, so no two tasks write
\* the same file.
C28_WritesOwnMetadataFile ==
    cmd = "backup" =>
        /\ \A w \in mdWrites : w.path = MetadataFileOf(cfg, databases[w.task])
        /\ \A w, v \in mdWrites : w.task # v.task => w.path # v.path

\* C29: the record a backup task has written is the record RestoreAll loads
\* for that instance.
C29_WrittenRecordIsLoaded ==
    BackupReturned =>
        \A i \in DOMAIN tasks :
            Called(i, "Write") =>
                LET got == MetadataLoad(fs, dirs,
                                        MetadataFileOf(cfg, databases[i]),
                                        ZeroMetadata)
                IN got.err = NoErr /\ got.rec = tasks[i].record

\* C30: no step of a restore run removes or changes the file named by a
\* loaded record's file_path.
C30_ArtifactUntouched ==
    [][\A i \in DOMAIN tasks :
         (/\ cmd = "restore"
          /\ Called(i, "Load")
          /\ Exists(fs, tasks[i].record.FilePath))
         => /\ Exists(fs', tasks[i].record.FilePath)
            /\ fs'[tasks[i].record.FilePath] = fs[tasks[i].record.FilePath]]_vars

\* C31: a backup task that has an error to send finds room in the error
\* channel: the send never blocks, and the channel never holds more errors
\* than there are tasks.
C31_SendNeverBlocks ==
    cmd = "backup" =>
        /\ Len(errs.buf) <= Len(tasks)
        /\ \A i \in DOMAIN tasks :
             (tasks[i].pc = "report" /\ tasks[i].ret # NoErr) =>
                 Len(errs.buf) < errs.cap
        /\ \A i, j \in DOMAIN errs.buf : errs.buf[i] = errs.buf[j] => i = j

C31_Witness ==
    /\ cmd = "backup"
    /\ Len(errs.buf) = 1
    /\ \E i \in DOMAIN tasks : tasks[i].pc = "report" /\ tasks[i].ret # NoErr

\* C33: the broker calls of an AppRole login are a prefix of read role-id,
\* write secret-id, write login; a login request follows a role_id and a
\* secret_id that were both non-empty and carries those two values.
C33_LoginOrder ==
    (cfg.Vault.RoleName # "" /\ opc # "new" /\ Len(brokerLog) > 0) =>
        /\ brokerLog[1].op = "read" /\ brokerLog[1].path = "role-id"
        /\ Len(brokerLog) >= 2 =>
             brokerLog[2].op = "write" /\ brokerLog[2].path = "secret-id"
        /\ \A k \in LoginCalls :
             /\ k = 3
             /\ brokerLog[k].op = "write"
             /\ brokerLog[k].role_id = BrokerValue("role_id", "value")
             /\ brokerLog[k].secret_id = BrokerValue("secret_id", "value")
             /\ brokerLog[k].role_id # ""
             /\ brokerLog[k].secret_id # ""

C33_Witness ==
    /\ cfg.Vault.RoleName # ""
    /\ session.ok
    /\ LoginCalls = {3}

\* C34: no two Databases returned by InitializeDatabases have the same
\* engine and the same database name.
C34_UniqueIdentity ==
    \A i, j \in DOMAIN databases :
        (databases[i].Engine = databases[j].Engine
         /\ databases[i].Database = databases[j].Database) => i = j

\* C35: once CompressZstd has removed the original, the compressed file is
\* a complete Zstandard stream.
C35_RemovedAfterStreamClosed ==
    \A i \in DOMAIN tasks :
        (/\ Compressed(i)
         /\ tasks[i].backupPath # EmptyPath
         /\ ~Exists(fs, tasks[i].backupPath)) =>
            /\ Exists(fs, AddSuffix(tasks[i].backupPath, ".zst"))
            /\ ZstdValid(fs[AddSuffix(tasks[i].backupPath, ".zst")].bytes)

\* C36: when a restore task whose DecompressZstd failed has ended, no file
\* is left at the decompressed path.
C36_NoPartialAfterFailedDecompress ==
    \A i \in DOMAIN tasks :
        (/\ cmd = "restore"
         /\ tasks[i].pc = "done"
         /\ Called(i, "DecompressZstd")
         /\ ~Called(i, "Restore")
         /\ IsCompressed(tasks[i].record.FilePath)) =>
            ~Exists(fs, TrimSuffix(tasks[i].record.FilePath, ".zst"))

\* C37: when BackupAll has returned, the size_bytes of every success record
\* it wrote is the size of the file the record's file_path names.
C37_SizeOfNamedFile ==
    BackupReturned =>
        \A w \in mdWrites :
            (/\ fs[w.path].rec.Status = StatusSuccess
             /\ Supported(databases[w.task].Engine, databases[w.task].Method)
             /\ Exists(fs, fs[w.path].rec.FilePath))
            => fs[w.path].rec.SizeBytes = FileSize(fs, fs[w.path].rec.FilePath)

\* C38: the Load step of a restore task creates no directory and no file.
C38_LoadReadOnly ==
    [][\A i \in DOMAIN tasks :
         (/\ cmd = "restore"
          /\ tasks[i].pc = "load"
          /\ i \in DOMAIN tasks'
          /\ tasks'[i].pc # "load")
         => (dirs' = dirs /\ fs' = fs)]_vars

\* the databases of the engine whose Metadata is kept under path
DatabasesUnder(path) ==
    {k \in DOMAIN databases : GetPath(databases[k]) = path}

\* C32: in the aggregating BackupAll every access to the map made while a
\* goroutine is running holds the mutex, and when BackupAll has returned
\* the Metadata of every engine holds one record per database of the
\* engine.
C32_AggregateGuarded ==
    /\ \A a \in accesses : a.running => a.locked
    /\ (opc = "returned" /\ workers # <<>>) =>
         \A path \in DOMAIN backupMetas :
            Len(metas[backupMetas[path]].Backups)
               = Cardinality(DatabasesUnder(path))

====
